---- MODULE Spec2Model ----
(***************************************************************************)
(* Orchestration state machine of TrajGeneratorNode                        *)
(* (src/traj_generator/traj_generator.py).                                 *)
(*                                                                         *)
(* The node runs its constructor (startup wait, SetInitialPose dispatch,   *)
(* People publish, ComputePathThroughPoses goal submission) before         *)
(* rclpy.spin starts; from then on the single-threaded executor delivers   *)
(* one completion notification at a time and runs its callback to the end. *)
(* `trace` is what an instrumented transport would record: every call the  *)
(* node makes on a client or publisher and every notification delivered to *)
(* it, in order.                                                           *)
(*                                                                         *)
(* Floating point literals of the source are kept as scaled integers:      *)
(* positions and covariances in 1/100, quaternion components in 1/10^7.    *)
(***************************************************************************)
EXTENDS Integers, Sequences, FiniteSets, TLC

VARIABLES
    pc,                 \* position of the process: constructor step, spin, or done
    waits,              \* 'service not available, waiting...' lines logged so far
    initialPoseFuture,  \* future returned by call_async (never read by the node)
    pathSendFuture,     \* send_goal_future of compute_path_through_poses
    pathResultFuture,   \* get_result_future of compute_path_through_poses_response
    smoothSendFuture,   \* send_goal_future of smooth_path
    smoothResultFuture, \* get_result_future of smooth_path_response
    pathInFlight,       \* ComputePathThroughPoses goals submitted and not yet rejected/finished
    smoothInFlight,     \* SmoothPath goals submitted and not yet rejected/finished
    trace,              \* calls made and notifications received, in order
    log                 \* error-level log lines, in order

vars == <<pc, waits, initialPoseFuture, pathSendFuture, pathResultFuture,
          smoothSendFuture, smoothResultFuture,
          pathInFlight, smoothInFlight, trace, log>>

pathVars == <<pathSendFuture, pathResultFuture, pathInFlight>>

smoothVars == <<smoothSendFuture, smoothResultFuture, smoothInFlight>>

-----------------------------------------------------------------------------
(* Bounds of the model *)

\* the startup loop's log counter saturates here
MaxWaits == 2

\* poses a remote server may put into a path are drawn from 1..MaxPose
MaxPose == 2

\* longest path a remote server returns
MaxPathLen == 1

\* clock readings available to publish_people are 0..MaxStamp
MaxStamp == 1

-----------------------------------------------------------------------------
(* Program constants *)

\* wait_for_service(timeout_sec=1.0)
ServiceWaitTimeoutSec == 1

\* wait_for_server(timeout_sec=10.0)
ServerWaitTimeoutSec == 10

\* 0.25, in 1/100
CovXY == 25

\* 0.7071068, in 1/10^7
QuatHalfTurn == 7071068

\* Mutant: the yaw variance is populated as well (0.07 at row-major index 35).
InitialPoseRequestWithYawVariance ==
    [frame_id    |-> "map",
     position    |-> [x |-> 0, y |-> 400, z |-> 1],
     orientation |-> [x |-> 0, y |-> 0, z |-> -QuatHalfTurn, w |-> QuatHalfTurn],
     covariance  |-> [i \in 1..36 |-> IF i \in {1, 8} THEN CovXY
                                      ELSE IF i = 36 THEN 7 ELSE 0]]

\* request.pose of set_initial_pose
InitialPoseRequest ==
    [frame_id    |-> "map",
     position    |-> [x |-> 0, y |-> 400, z |-> 1],
     orientation |-> [x |-> 0, y |-> 0, z |-> -QuatHalfTurn, w |-> QuatHalfTurn],
     covariance  |-> [i \in 1..36 |-> IF i \in {1, 8} THEN CovXY ELSE 0]]

\* msg of publish_people, stamped with the clock reading
PeopleMsg(stamp) ==
    [frame_id |-> "map",
     stamp    |-> stamp,
     people   |-> << [name     |-> "person1",
                      position |-> [x |-> 0, y |-> 0, z |-> 0],
                      velocity |-> [x |-> 0, y |-> 100, z |-> 0]] >>]

\* the literal list the goal loop iterates over
WaypointLiterals == << <<0, 200>>, <<-80, 0>> >>

\* PoseStamped built by one iteration of the goal loop
PoseStampedOf(xy) ==
    [frame_id    |-> "map",
     position    |-> [x |-> xy[1], y |-> xy[2]],
     orientation |-> [z |-> -QuatHalfTurn, w |-> QuatHalfTurn]]

\* goal_msg.goals after the loop: one append per literal, in order
RECURSIVE AppendGoals(_, _)
AppendGoals(goals, literals) ==
    IF literals = << >> THEN goals
    ELSE AppendGoals(Append(goals, PoseStampedOf(Head(literals))), Tail(literals))

\* goals.insert(0, pose) in place of goals.append(pose)
RECURSIVE InsertGoals(_, _)
InsertGoals(goals, literals) ==
    IF literals = << >> THEN goals
    ELSE InsertGoals(<< PoseStampedOf(Head(literals)) >> \o goals, Tail(literals))

\* Mutant: each pose is inserted at the head of goal_msg.goals, so the goal
\* lists the waypoints in reverse.
PathGoalMsgInserting == [goals |-> InsertGoals(<< >>, WaypointLiterals)]

\* goal_msg of compute_path_through_poses
PathGoalMsg == [goals |-> AppendGoals(<< >>, WaypointLiterals)]

\* Mutant: goal_msg.path is never assigned; the goal carries an empty Path.
SmoothGoalMsgUnassigned(path) == [path |-> << >>]

\* SmoothPath.Goal with goal_msg.path = path
SmoothGoalMsg(path) == [path |-> path]

-----------------------------------------------------------------------------
(* What the environment can deliver *)

RECURSIVE SeqsUpTo(_, _)
SeqsUpTo(S, n) ==
    IF n = 0 THEN { << >> }
    ELSE LET shorter == SeqsUpTo(S, n - 1)
         IN  shorter \cup { Append(s, x) : s \in shorter, x \in S }

\* nav_msgs/Path payloads: opaque pose sequences, the empty path included
Paths == SeqsUpTo(1..MaxPose, MaxPathLen)

\* wrapped results handed to a get_result done-callback
ActionResults ==
    [status : {"SUCCEEDED", "ABORTED"}, result : [path : Paths]]

\* responses of the /set_initial_pose service
ServiceResponses == {"ack", "garbage"}

Stamps == 0..MaxStamp

Ev(name, arg) == [ev |-> name, arg |-> arg]

WaitArg(timeout, ok) == [timeout |-> timeout, ok |-> ok]

-----------------------------------------------------------------------------
Init ==
    /\ pc = "wait_for_service"
    /\ waits = 0
    /\ initialPoseFuture = "none"
    /\ pathSendFuture = "none"
    /\ pathResultFuture = "none"
    /\ smoothSendFuture = "none"
    /\ smoothResultFuture = "none"
    /\ pathInFlight = 0
    /\ smoothInFlight = 0
    /\ trace = << >>
    /\ log = << >>

-----------------------------------------------------------------------------
(* Constructor *)

\* Mutant: `if` in place of `while`: the service is probed once and the
\* constructor goes on whatever the probe returned.
wait_for_service_probed_once(ready) ==
    /\ pc = "wait_for_service"
    /\ pc' = "set_initial_pose"
    /\ IF ready
       THEN /\ trace' = Append(trace, Ev("wait_for_service",
                                         WaitArg(ServiceWaitTimeoutSec, TRUE)))
            /\ UNCHANGED waits
       ELSE /\ waits' = IF waits < MaxWaits THEN waits + 1 ELSE waits
            /\ UNCHANGED trace
    /\ UNCHANGED <<initialPoseFuture, pathVars, smoothVars, log>>

\* one iteration of the startup loop; `ready` is what wait_for_service returns
wait_for_service(ready) ==
    /\ pc = "wait_for_service"
    /\ IF ready
       THEN /\ pc' = "set_initial_pose"
            /\ trace' = Append(trace, Ev("wait_for_service",
                                         WaitArg(ServiceWaitTimeoutSec, TRUE)))
            /\ UNCHANGED waits
       ELSE /\ waits' = IF waits < MaxWaits THEN waits + 1 ELSE waits
            /\ UNCHANGED <<pc, trace>>
    /\ UNCHANGED <<initialPoseFuture, pathVars, smoothVars, log>>

\* Mutant: the call is awaited (spin_until_future_complete) before the
\* constructor goes on.
set_initial_pose_awaiting_response ==
    /\ pc = "set_initial_pose"
    /\ \E response \in ServiceResponses :
          trace' = trace \o << Ev("call_async", InitialPoseRequest),
                               Ev("initial_pose_response", response) >>
    /\ initialPoseFuture' = "done"
    /\ pc' = "publish_people"
    /\ UNCHANGED <<waits, pathVars, smoothVars, log>>

set_initial_pose ==
    /\ pc = "set_initial_pose"
    /\ trace' = Append(trace, Ev("call_async", InitialPoseRequest))
    /\ initialPoseFuture' = "pending"
    /\ pc' = "publish_people"
    /\ UNCHANGED <<waits, pathVars, smoothVars, log>>

publish_people ==
    /\ pc = "publish_people"
    /\ \E stamp \in Stamps :
          trace' = Append(trace, Ev("publish_people", PeopleMsg(stamp)))
    /\ pc' = "compute_path_through_poses"
    /\ UNCHANGED <<waits, initialPoseFuture, pathVars, smoothVars, log>>

\* Mutant: the `return` after the error log is missing.
smooth_path_missing_return(path, tr, available) ==
    /\ IF ~available
       THEN /\ trace' = tr \o
                 << Ev("smooth_wait_for_server", WaitArg(ServerWaitTimeoutSec, FALSE)),
                    Ev("smooth_send_goal", SmoothGoalMsg(path)) >>
            /\ log' = Append(log, "SmoothPath action server not available!")
       ELSE /\ trace' = tr \o
                 << Ev("smooth_wait_for_server", WaitArg(ServerWaitTimeoutSec, TRUE)),
                    Ev("smooth_send_goal", SmoothGoalMsg(path)) >>
            /\ UNCHANGED log
    /\ smoothSendFuture' = "pending"
    /\ smoothInFlight' = smoothInFlight + 1

\* smooth_path(path), called with the trace as the caller has left it;
\* `available` is what wait_for_server returns
smooth_path(path, tr, available) ==
    IF ~available
    THEN /\ trace' = Append(tr, Ev("smooth_wait_for_server",
                                   WaitArg(ServerWaitTimeoutSec, FALSE)))
         /\ log' = Append(log, "SmoothPath action server not available!")
         /\ UNCHANGED <<smoothSendFuture, smoothInFlight>>
    ELSE /\ trace' = tr \o
              << Ev("smooth_wait_for_server", WaitArg(ServerWaitTimeoutSec, TRUE)),
                 Ev("smooth_send_goal", SmoothGoalMsg(path)) >>
         /\ smoothSendFuture' = "pending"
         /\ smoothInFlight' = smoothInFlight + 1
         /\ UNCHANGED log

\* Mutant: the constructor calls the two actions one after the other, the
\* smoothing goal (with an empty Path) right after the path goal.
compute_path_through_poses_then_smooth_path(available) ==
    /\ pc = "compute_path_through_poses"
    /\ pc' = "spin"
    /\ pathSendFuture' = "pending"
    /\ pathInFlight' = pathInFlight + 1
    /\ smooth_path(<< >>, trace \o
          << Ev("path_wait_for_server", WaitArg(ServerWaitTimeoutSec, TRUE)),
             Ev("path_send_goal", PathGoalMsg) >>, available)
    /\ UNCHANGED <<waits, initialPoseFuture, pathResultFuture,
                   smoothResultFuture>>

\* Mutant: the `return` after the error log is missing, so the goal is sent
\* to a server that was not found.
compute_path_through_poses_missing_return(available) ==
    /\ pc = "compute_path_through_poses"
    /\ pc' = "spin"
    /\ IF ~available
       THEN /\ trace' = trace \o
                 << Ev("path_wait_for_server", WaitArg(ServerWaitTimeoutSec, FALSE)),
                    Ev("path_send_goal", PathGoalMsg) >>
            /\ log' = Append(log, "ComputePathThroughPoses action server not available!")
       ELSE /\ trace' = trace \o
                 << Ev("path_wait_for_server", WaitArg(ServerWaitTimeoutSec, TRUE)),
                    Ev("path_send_goal", PathGoalMsg) >>
            /\ UNCHANGED log
    /\ pathSendFuture' = "pending"
    /\ pathInFlight' = pathInFlight + 1
    /\ UNCHANGED <<waits, initialPoseFuture, pathResultFuture, smoothVars>>

\* last call of the constructor; main enters rclpy.spin when it returns;
\* `available` is what wait_for_server returns
compute_path_through_poses(available) ==
    /\ pc = "compute_path_through_poses"
    /\ pc' = "spin"
    /\ IF ~available
       THEN /\ trace' = Append(trace, Ev("path_wait_for_server",
                                         WaitArg(ServerWaitTimeoutSec, FALSE)))
            /\ log' = Append(log, "ComputePathThroughPoses action server not available!")
            /\ UNCHANGED <<pathSendFuture, pathInFlight>>
       ELSE /\ trace' = trace \o
                 << Ev("path_wait_for_server", WaitArg(ServerWaitTimeoutSec, TRUE)),
                    Ev("path_send_goal", PathGoalMsg) >>
            /\ pathSendFuture' = "pending"
            /\ pathInFlight' = pathInFlight + 1
            /\ UNCHANGED log
    /\ UNCHANGED <<waits, initialPoseFuture, pathResultFuture, smoothVars>>

-----------------------------------------------------------------------------
(* Callbacks run by the executor inside rclpy.spin *)

\* the executor completes the call_async future; no callback is attached to it
initial_pose_response(response) ==
    /\ pc = "spin"
    /\ initialPoseFuture = "pending"
    /\ initialPoseFuture' = "done"
    /\ trace' = Append(trace, Ev("initial_pose_response", response))
    /\ UNCHANGED <<pc, waits, pathVars, smoothVars, log>>

\* Mutant: the result is waited for under a deadline inside the acceptance
\* callback; the deadline passes, an error is logged and no callback is
\* attached.
compute_path_through_poses_response_with_deadline(accepted) ==
    /\ pc = "spin"
    /\ pathSendFuture = "pending"
    /\ pathSendFuture' = "done"
    /\ IF ~accepted
       THEN /\ trace' = Append(trace, Ev("path_goal_response", FALSE))
            /\ log' = Append(log, "ComputePathThroughPoses goal was rejected!")
            /\ pathInFlight' = pathInFlight - 1
       ELSE /\ trace' = trace \o << Ev("path_goal_response", TRUE),
                                    Ev("path_get_result", "goal_handle") >>
            /\ log' = Append(log, "ComputePathThroughPoses result timed out!")
            /\ UNCHANGED pathInFlight
    /\ UNCHANGED pathResultFuture
    /\ UNCHANGED <<pc, waits, initialPoseFuture, smoothVars>>

\* Mutant: a rejected goal is sent again: the error branch calls
\* self.compute_path_through_poses() before it returns (the server, having
\* just answered, is found available).
compute_path_through_poses_response_retrying(accepted) ==
    /\ pc = "spin"
    /\ pathSendFuture = "pending"
    /\ IF ~accepted
       THEN /\ trace' = trace \o
                 << Ev("path_goal_response", FALSE),
                    Ev("path_wait_for_server", WaitArg(ServerWaitTimeoutSec, TRUE)),
                    Ev("path_send_goal", PathGoalMsg) >>
            /\ log' = Append(log, "ComputePathThroughPoses goal was rejected!")
            /\ UNCHANGED <<pathSendFuture, pathInFlight, pathResultFuture>>
       ELSE /\ trace' = trace \o << Ev("path_goal_response", TRUE),
                                    Ev("path_get_result", "goal_handle") >>
            /\ pathSendFuture' = "done"
            /\ pathResultFuture' = "pending"
            /\ UNCHANGED <<pathInFlight, log>>
    /\ UNCHANGED <<pc, waits, initialPoseFuture, smoothVars>>

\* Mutant: goal_handle.accepted is not looked at; the result is requested
\* from a rejected goal as well.
compute_path_through_poses_response_ignoring_rejection(accepted) ==
    /\ pc = "spin"
    /\ pathSendFuture = "pending"
    /\ pathSendFuture' = "done"
    /\ trace' = trace \o << Ev("path_goal_response", accepted),
                            Ev("path_get_result", "goal_handle") >>
    /\ pathResultFuture' = "pending"
    /\ UNCHANGED <<pathInFlight, log>>
    /\ UNCHANGED <<pc, waits, initialPoseFuture, smoothVars>>

\* done-callback of send_goal_future
compute_path_through_poses_response(accepted) ==
    /\ pc = "spin"
    /\ pathSendFuture = "pending"
    /\ pathSendFuture' = "done"
    /\ IF ~accepted
       THEN /\ trace' = Append(trace, Ev("path_goal_response", FALSE))
            /\ log' = Append(log, "ComputePathThroughPoses goal was rejected!")
            /\ pathInFlight' = pathInFlight - 1
            /\ UNCHANGED pathResultFuture
       ELSE /\ trace' = trace \o << Ev("path_goal_response", TRUE),
                                    Ev("path_get_result", "goal_handle") >>
            /\ pathResultFuture' = "pending"
            /\ UNCHANGED <<pathInFlight, log>>
    /\ UNCHANGED <<pc, waits, initialPoseFuture, smoothVars>>

\* destroy_node() then rclpy.shutdown(), appended to the caller's trace
shutdown(tr) ==
    /\ trace' = tr \o << Ev("destroy_node", "traj_generator"),
                         Ev("rclpy_shutdown", "context") >>
    /\ pc' = "done"

\* Mutant: the path result future is wired to on_path_smoothed, so the
\* computed path is published and the node shut down without smoothing.
on_path_computed_wired_to_on_path_smoothed(wrapped, available) ==
    /\ pc = "spin"
    /\ pathResultFuture = "pending"
    /\ pathResultFuture' = "done"
    /\ pathInFlight' = pathInFlight - 1
    /\ shutdown(trace \o << Ev("path_result", wrapped),
                            Ev("publish_plan", wrapped.result.path) >>)
    /\ UNCHANGED <<waits, initialPoseFuture, pathSendFuture,
                   smoothVars, log>>

\* Mutant: a result that does not report success is treated as a failure.
on_path_computed_checking_status(wrapped, available) ==
    /\ pc = "spin"
    /\ pathResultFuture = "pending"
    /\ pathResultFuture' = "done"
    /\ pathInFlight' = pathInFlight - 1
    /\ IF wrapped.status # "SUCCEEDED"
       THEN /\ trace' = Append(trace, Ev("path_result", wrapped))
            /\ log' = Append(log, "ComputePathThroughPoses failed!")
            /\ UNCHANGED <<smoothSendFuture, smoothInFlight>>
       ELSE smooth_path(wrapped.result.path,
                        Append(trace, Ev("path_result", wrapped)), available)
    /\ UNCHANGED <<pc, waits, initialPoseFuture, pathSendFuture,
                   smoothResultFuture>>

\* done-callback of the path get_result_future
on_path_computed(wrapped, available) ==
    /\ pc = "spin"
    /\ pathResultFuture = "pending"
    /\ pathResultFuture' = "done"
    /\ pathInFlight' = pathInFlight - 1
    /\ smooth_path(wrapped.result.path, Append(trace, Ev("path_result", wrapped)),
                   available)
    /\ UNCHANGED <<pc, waits, initialPoseFuture, pathSendFuture,
                   smoothResultFuture>>

\* Mutant: goal_handle.accepted is not looked at.
smooth_path_response_ignoring_rejection(accepted) ==
    /\ pc = "spin"
    /\ smoothSendFuture = "pending"
    /\ smoothSendFuture' = "done"
    /\ trace' = trace \o << Ev("smooth_goal_response", accepted),
                            Ev("smooth_get_result", "goal_handle") >>
    /\ smoothResultFuture' = "pending"
    /\ UNCHANGED <<smoothInFlight, log>>
    /\ UNCHANGED <<pc, waits, initialPoseFuture, pathVars>>

\* Mutant: the accepted branch logs and returns; get_result_async is not
\* called and on_path_smoothed is attached to nothing.
smooth_path_response_without_result_request(accepted) ==
    /\ pc = "spin"
    /\ smoothSendFuture = "pending"
    /\ smoothSendFuture' = "done"
    /\ IF ~accepted
       THEN /\ trace' = Append(trace, Ev("smooth_goal_response", FALSE))
            /\ log' = Append(log, "SmoothPath goal was rejected!")
            /\ smoothInFlight' = smoothInFlight - 1
       ELSE /\ trace' = Append(trace, Ev("smooth_goal_response", TRUE))
            /\ UNCHANGED <<smoothInFlight, log>>
    /\ UNCHANGED smoothResultFuture
    /\ UNCHANGED <<pc, waits, initialPoseFuture, pathVars>>

\* Mutant: a rejected goal ends the process: the error branch calls
\* self.shutdown() before it returns.
smooth_path_response_shutting_down_on_rejection(accepted) ==
    /\ pc = "spin"
    /\ smoothSendFuture = "pending"
    /\ smoothSendFuture' = "done"
    /\ IF ~accepted
       THEN /\ shutdown(Append(trace, Ev("smooth_goal_response", FALSE)))
            /\ log' = Append(log, "SmoothPath goal was rejected!")
            /\ smoothInFlight' = smoothInFlight - 1
            /\ UNCHANGED smoothResultFuture
       ELSE /\ trace' = trace \o << Ev("smooth_goal_response", TRUE),
                                    Ev("smooth_get_result", "goal_handle") >>
            /\ smoothResultFuture' = "pending"
            /\ UNCHANGED <<pc, smoothInFlight, log>>
    /\ UNCHANGED <<waits, initialPoseFuture, pathVars>>

\* done-callback of the smoothing send_goal_future
smooth_path_response(accepted) ==
    /\ pc = "spin"
    /\ smoothSendFuture = "pending"
    /\ smoothSendFuture' = "done"
    /\ IF ~accepted
       THEN /\ trace' = Append(trace, Ev("smooth_goal_response", FALSE))
            /\ log' = Append(log, "SmoothPath goal was rejected!")
            /\ smoothInFlight' = smoothInFlight - 1
            /\ UNCHANGED smoothResultFuture
       ELSE /\ trace' = trace \o << Ev("smooth_goal_response", TRUE),
                                    Ev("smooth_get_result", "goal_handle") >>
            /\ smoothResultFuture' = "pending"
            /\ UNCHANGED <<smoothInFlight, log>>
    /\ UNCHANGED <<pc, waits, initialPoseFuture, pathVars>>

\* Mutant: the call of self.shutdown() is missing; the node publishes and
\* goes on spinning.
on_path_smoothed_without_shutdown(wrapped) ==
    /\ pc = "spin"
    /\ smoothResultFuture = "pending"
    /\ smoothResultFuture' = "done"
    /\ smoothInFlight' = smoothInFlight - 1
    /\ trace' = trace \o << Ev("smooth_result", wrapped),
                            Ev("publish_plan", wrapped.result.path) >>
    /\ UNCHANGED <<pc, waits, initialPoseFuture, pathVars,
                   smoothSendFuture, log>>

\* Mutant: self.shutdown() is called before the publish.
on_path_smoothed_shutting_down_first(wrapped) ==
    /\ pc = "spin"
    /\ smoothResultFuture = "pending"
    /\ smoothResultFuture' = "done"
    /\ smoothInFlight' = smoothInFlight - 1
    /\ trace' = trace \o << Ev("smooth_result", wrapped),
                            Ev("destroy_node", "traj_generator"),
                            Ev("rclpy_shutdown", "context"),
                            Ev("publish_plan", wrapped.result.path) >>
    /\ pc' = "done"
    /\ UNCHANGED <<waits, initialPoseFuture, pathVars,
                   smoothSendFuture, log>>

\* Mutant: the smoothing result's status is checked; a result that is not
\* SUCCEEDED is logged as an error and nothing is published.
on_path_smoothed_checking_status(wrapped) ==
    /\ pc = "spin"
    /\ smoothResultFuture = "pending"
    /\ smoothResultFuture' = "done"
    /\ smoothInFlight' = smoothInFlight - 1
    /\ IF wrapped.status # "SUCCEEDED"
       THEN /\ trace' = Append(trace, Ev("smooth_result", wrapped))
            /\ log' = Append(log, "SmoothPath failed!")
            /\ UNCHANGED pc
       ELSE /\ shutdown(trace \o << Ev("smooth_result", wrapped),
                                    Ev("publish_plan", wrapped.result.path) >>)
            /\ UNCHANGED log
    /\ UNCHANGED <<waits, initialPoseFuture, pathVars, smoothSendFuture>>

\* Mutant: the path that was handed to the smoother is published, not the
\* path the smoother returned.
on_path_smoothed_publishing_input(wrapped) ==
    /\ pc = "spin"
    /\ smoothResultFuture = "pending"
    /\ smoothResultFuture' = "done"
    /\ smoothInFlight' = smoothInFlight - 1
    /\ LET sent == CHOOSE i \in DOMAIN trace : trace[i].ev = "smooth_send_goal"
       IN  shutdown(trace \o << Ev("smooth_result", wrapped),
                                Ev("publish_plan", trace[sent].arg.path) >>)
    /\ UNCHANGED <<waits, initialPoseFuture, pathVars,
                   smoothSendFuture, log>>

\* done-callback of the smoothing get_result_future
on_path_smoothed(wrapped) ==
    /\ pc = "spin"
    /\ smoothResultFuture = "pending"
    /\ smoothResultFuture' = "done"
    /\ smoothInFlight' = smoothInFlight - 1
    /\ shutdown(trace \o << Ev("smooth_result", wrapped),
                            Ev("publish_plan", wrapped.result.path) >>)
    /\ UNCHANGED <<waits, initialPoseFuture, pathVars,
                   smoothSendFuture, log>>

-----------------------------------------------------------------------------
Next ==
    \/ \E ready \in BOOLEAN : wait_for_service(ready)
    \/ set_initial_pose
    \/ publish_people
    \/ \E available \in BOOLEAN : compute_path_through_poses(available)
    \/ \E response \in ServiceResponses : initial_pose_response(response)
    \/ \E accepted \in BOOLEAN : compute_path_through_poses_response(accepted)
    \/ \E wrapped \in ActionResults, available \in BOOLEAN :
          on_path_computed(wrapped, available)
    \/ \E accepted \in BOOLEAN : smooth_path_response(accepted)
    \/ \E wrapped \in ActionResults : on_path_smoothed(wrapped)

Spec == Init /\ [][Next]_vars

\* The constructor runs to its end without waiting on anything but the
\* startup loop, which ends once the service is found ready; rclpy.spin
\* runs the callback of every future that has been completed.
Fairness ==
    /\ WF_vars(wait_for_service(TRUE))
    /\ WF_vars(set_initial_pose)
    /\ WF_vars(publish_people)
    /\ WF_vars(\E available \in BOOLEAN : compute_path_through_poses(available))
    /\ WF_vars(\E accepted \in BOOLEAN : compute_path_through_poses_response(accepted))
    /\ WF_vars(\E wrapped \in ActionResults, available \in BOOLEAN :
                  on_path_computed(wrapped, available))
    /\ WF_vars(\E accepted \in BOOLEAN : smooth_path_response(accepted))
    /\ WF_vars(\E wrapped \in ActionResults : on_path_smoothed(wrapped))

\* the program with its service ready in the end and every notification of
\* the two actions delivered
LiveSpec == Spec /\ Fairness

-----------------------------------------------------------------------------
(* Reading the recorded trace *)

Idx(name) == { i \in DOMAIN trace : trace[i].ev = name }

Count(name) == Cardinality(Idx(name))

Occurred(name) == Idx(name) # {}

\* positions of trace holding an event of one of the names
IdxAny(names) == { i \in DOMAIN trace : trace[i].ev \in names }

\* the calls by which the node invokes step n of the scripted sequence
StepActions(n) ==
    CASE n = 1 -> {"call_async"}
      [] n = 2 -> {"publish_people"}
      [] n = 3 -> {"path_wait_for_server", "path_send_goal"}
      [] n = 4 -> {"smooth_wait_for_server", "smooth_send_goal"}
      [] n = 5 -> {"publish_plan"}

\* an accepting goal response followed by a result, both before position i
AcceptedThenResult(response, result, i) ==
    \E j \in 1..(i - 1) : \E k \in (j + 1)..(i - 1) :
        /\ trace[j].ev = response
        /\ trace[j].arg = TRUE
        /\ trace[k].ev = result

\* step n's completion notification has been received before position i
\* (step 2, a publish, has none: it is complete when the call has been made)
Completed(n, i) ==
    CASE n = 1 -> \E j \in 1..(i - 1) : trace[j].ev = "initial_pose_response"
      [] n = 2 -> \E j \in 1..(i - 1) : trace[j].ev = "publish_people"
      [] n = 3 -> AcceptedThenResult("path_goal_response", "path_result", i)
      [] n = 4 -> AcceptedThenResult("smooth_goal_response", "smooth_result", i)

\* step n+1 is never invoked before step n has completed
GatedByCompletion(n) ==
    \A i \in IdxAny(StepActions(n + 1)) : Completed(n, i)

\* step n+1 is never invoked before step n has been invoked
GatedByInvocation(n) ==
    \A i \in IdxAny(StepActions(n + 1)) :
        \E j \in 1..(i - 1) : trace[j].ev \in StepActions(n)

\* every event named `action` directly follows an event named `trigger`,
\* i.e. it is made inside the callback that received `trigger`
SoleTrigger(trigger, action) ==
    \A i \in Idx(action) : i > 1 /\ trace[i - 1].ev = trigger

-----------------------------------------------------------------------------
(* Claims *)

\* C1, as stated: for every N in 1..4 the action of step N+1 is never
\* invoked before step N's completion notification has been received (for
\* step 1, the SetInitialState response).
C1_AllStepsGated == \A n \in 1..4 : GatedByCompletion(n)

\* C1, amended: steps 4 and 5 are never invoked before the acceptance and
\* the result of the preceding long-running operation have been received,
\* and the preceding result callback is their sole trigger; steps 2 and 3
\* are invoked by the constructor after the preceding step's call was made,
\* without waiting for the SetInitialState response.
C1_Amended ==
    /\ \A n \in 3..4 : GatedByCompletion(n)
    /\ \A n \in 1..2 : GatedByInvocation(n)
    /\ SoleTrigger("path_result", "smooth_wait_for_server")
    /\ SoleTrigger("smooth_wait_for_server", "smooth_send_goal")
    /\ SoleTrigger("smooth_result", "publish_plan")

\* C1 witness: a run went through all five steps.
C1_Witness ==
    /\ Occurred("publish_people")
    /\ Occurred("path_send_goal")
    /\ Occurred("smooth_send_goal")
    /\ Occurred("publish_plan")

\* an event `name` carrying the boolean `flag` has been recorded
Answered(name, flag) ==
    \E i \in Idx(name) : trace[i].arg = flag

\* a bounded availability wait `name` has been recorded with outcome `ok`
Probed(name, ok) ==
    \E i \in Idx(name) : trace[i].arg.ok = ok

NoSmoothing ==
    /\ Count("smooth_wait_for_server") = 0
    /\ Count("smooth_send_goal") = 0
    /\ smoothSendFuture = "none"
    /\ smoothInFlight = 0

NoFinalPublish == Count("publish_plan") = 0

NoShutdown ==
    /\ Count("destroy_node") = 0
    /\ Count("rclpy_shutdown") = 0
    /\ pc # "done"

\* C2: once the ComputePathThroughPoses goal has been rejected, no path
\* result is requested, SmoothPath is never invoked (neither availability
\* check nor goal) and nothing is published on the final path topic.
C2_PathGoalRejected ==
    Answered("path_goal_response", FALSE) =>
        /\ Count("path_get_result") = 0
        /\ pathResultFuture = "none"
        /\ NoSmoothing
        /\ NoFinalPublish

\* C2 witness: the goal was rejected and the executor went on delivering
\* what was still pending.
C2_Witness ==
    /\ Answered("path_goal_response", FALSE)
    /\ Occurred("initial_pose_response")
    /\ trace[Len(trace)].ev = "initial_pose_response"

\* C3: when the 10-second wait for the path server fails, no path goal is
\* ever submitted, SmoothPath is never invoked, no final path is published,
\* and the availability check is made once only.
C3_PathServerUnavailable ==
    /\ \A i \in Idx("path_wait_for_server") : trace[i].arg.timeout = 10
    /\ Probed("path_wait_for_server", FALSE) =>
          /\ Count("path_wait_for_server") = 1
          /\ Count("path_send_goal") = 0
          /\ pathSendFuture = "none"
          /\ pathInFlight = 0
          /\ NoSmoothing
          /\ NoFinalPublish

\* C3 witness: the wait failed and the executor is spinning, the
\* SetInitialState response delivered.
C3_Witness ==
    /\ Probed("path_wait_for_server", FALSE)
    /\ pc = "spin"
    /\ initialPoseFuture = "done"

\* C4: whatever is published on the final path topic is the path of the
\* SmoothPath result just delivered, unchanged; there is at most one such
\* publish, and when the computed path P1 differs from the smoothed path P2
\* it is P2 that is published, not P1.
C4_FinalPathIsSmoothed ==
    /\ Count("publish_plan") <= 1
    /\ \A i \in Idx("publish_plan") :
          /\ i > 1
          /\ trace[i - 1].ev = "smooth_result"
          /\ trace[i].arg = trace[i - 1].arg.result.path
          /\ \A j \in Idx("path_result") :
                trace[j].arg.result.path # trace[i - 1].arg.result.path
                    => trace[i].arg # trace[j].arg.result.path

\* C4 witness: a final path was published in a run where the computed and
\* the smoothed path differ.
C4_Witness ==
    \E i \in Idx("publish_plan") : \E j \in Idx("path_result") :
        /\ trace[j].arg.result.path # << >>
        /\ trace[i].arg # << >>
        /\ trace[i].arg # trace[j].arg.result.path

\* C5: every SmoothPath goal carries exactly the path of the path result
\* just delivered, and every path result, whatever its status and content,
\* is handed to smooth_path: the availability check follows it directly and
\* the goal follows a successful check.
C5_SmoothGoalIsComputedPath ==
    /\ \A i \in Idx("smooth_send_goal") :
          /\ i > 2
          /\ trace[i - 2].ev = "path_result"
          /\ trace[i].arg = [path |-> trace[i - 2].arg.result.path]
    /\ \A k \in Idx("path_result") :
          /\ k + 1 \in DOMAIN trace
          /\ trace[k + 1].ev = "smooth_wait_for_server"
          /\ trace[k + 1].arg.ok =>
                /\ k + 2 \in DOMAIN trace
                /\ trace[k + 2].ev = "smooth_send_goal"

\* C5 witness: the non-empty path of an ABORTED result was forwarded to
\* SmoothPath.
C5_Witness ==
    \E i \in Idx("smooth_send_goal") :
        /\ trace[i - 2].arg.status = "ABORTED"
        /\ trace[i].arg.path # << >>

\* nothing of the scripted sequence has been done yet
NothingDone ==
    /\ trace = << >>
    /\ log = << >>
    /\ initialPoseFuture = "none"
    /\ pathSendFuture = "none"
    /\ pathResultFuture = "none"
    /\ smoothSendFuture = "none"
    /\ smoothResultFuture = "none"

\* C6, state part: while the constructor is in the startup loop nothing has
\* been done, the loop can always take another 1-second wait however many
\* it has taken, and whatever has been done was preceded by a wait that
\* found the service ready.
C6_StartupGate ==
    /\ pc = "wait_for_service" =>
          NothingDone /\ \A ready \in BOOLEAN : ENABLED wait_for_service(ready)
    /\ trace # << >> =>
          /\ trace[1].ev = "wait_for_service"
          /\ trace[1].arg = [timeout |-> 1, ok |-> TRUE]
    /\ Count("wait_for_service") <= 1

\* C6, step part: a step taken in the startup loop either stays in it with
\* nothing done, or leaves it for step 1 on a wait that found the service
\* ready.
C6_StaysWhileNotReady ==
    pc = "wait_for_service" =>
        \/ pc' = "wait_for_service" /\ NothingDone'
        \/ /\ pc' = "set_initial_pose"
           /\ trace' = << [ev  |-> "wait_for_service",
                           arg |-> [timeout |-> 1, ok |-> TRUE]] >>

\* C6: no scripted step runs before /set_initial_pose has reported ready,
\* and with the service not ready the constructor stays in the startup
\* wait, retrying without bound.
C6_StartupWait == []C6_StartupGate /\ [][C6_StaysWhileNotReady]_vars

\* C6 witness: the service has been found not ready as often as the model
\* counts, and the constructor is still waiting with nothing done.
C6_Witness ==
    /\ pc = "wait_for_service"
    /\ waits = MaxWaits
    /\ NothingDone

\* C7: the SetInitialState call does not gate the sequence: the People
\* publish follows the dispatch directly and the path-server check follows
\* the publish directly, with no response received in between, and every
\* later callback is enabled whether the response future is pending or
\* done.
C7_InitialPoseNotAGate ==
    /\ SoleTrigger("call_async", "publish_people")
    /\ SoleTrigger("publish_people", "path_wait_for_server")
    /\ pc = "publish_people" => initialPoseFuture = "pending" /\ ENABLED publish_people
    /\ pc = "compute_path_through_poses" =>
          /\ initialPoseFuture = "pending"
          /\ \A available \in BOOLEAN : ENABLED compute_path_through_poses(available)
    /\ (pc = "spin" /\ pathSendFuture = "pending") =>
          \A accepted \in BOOLEAN :
              ENABLED compute_path_through_poses_response(accepted)
    /\ (pc = "spin" /\ pathResultFuture = "pending") =>
          \A wrapped \in ActionResults, available \in BOOLEAN :
              ENABLED on_path_computed(wrapped, available)
    /\ (pc = "spin" /\ smoothSendFuture = "pending") =>
          \A accepted \in BOOLEAN : ENABLED smooth_path_response(accepted)
    /\ (pc = "spin" /\ smoothResultFuture = "pending") =>
          \A wrapped \in ActionResults : ENABLED on_path_smoothed(wrapped)

\* C7 witness: the run published the final path and shut down while the
\* SetInitialState response had still not arrived.
C7_Witness ==
    /\ pc = "done"
    /\ Occurred("publish_plan")
    /\ initialPoseFuture = "pending"
    /\ ~Occurred("initial_pose_response")

\* C8: when the 10-second wait for the smoothing server fails (it is made
\* once, right after the path result has arrived), no SmoothPath goal is
\* ever submitted, nothing is published on the final path topic and
\* shutdown is never initiated.
C8_SmoothServerUnavailable ==
    /\ \A i \in Idx("smooth_wait_for_server") :
          /\ trace[i].arg.timeout = 10
          /\ i > 1
          /\ trace[i - 1].ev = "path_result"
    /\ Probed("smooth_wait_for_server", FALSE) =>
          /\ Count("smooth_wait_for_server") = 1
          /\ Count("smooth_send_goal") = 0
          /\ smoothSendFuture = "none"
          /\ smoothResultFuture = "none"
          /\ smoothInFlight = 0
          /\ NoFinalPublish
          /\ NoShutdown

\* C8 witness: the wait failed and the executor went on spinning.
C8_Witness ==
    /\ Probed("smooth_wait_for_server", FALSE)
    /\ pc = "spin"
    /\ trace[Len(trace)].ev = "initial_pose_response"

\* C9: once the SmoothPath goal has been rejected, no smoothing result is
\* requested, nothing is published on the final path topic, shutdown is
\* never initiated and the goal is not submitted again.
C9_SmoothGoalRejected ==
    Answered("smooth_goal_response", FALSE) =>
        /\ Count("smooth_get_result") = 0
        /\ smoothResultFuture = "none"
        /\ Count("smooth_send_goal") = 1
        /\ smoothSendFuture = "done"
        /\ smoothInFlight = 0
        /\ NoFinalPublish
        /\ NoShutdown

\* C9 witness: the smoothing goal was rejected and the executor went on
\* spinning.
C9_Witness ==
    /\ Answered("smooth_goal_response", FALSE)
    /\ pc = "spin"
    /\ trace[Len(trace)].ev = "initial_pose_response"

\* goals of one kind submitted and not yet rejected or finished, counted
\* from the recorded trace
InFlightInTrace(send, response, result) ==
    Count(send)
      - Cardinality({ i \in Idx(response) : trace[i].arg = FALSE })
      - Count(result)

\* C10: at most one long-running operation is in flight: never one of each
\* kind at once, never two of a kind; the SmoothPath goal is submitted only
\* from inside the path result callback.
C10_OneOperationInFlight ==
    /\ pathInFlight \in {0, 1}
    /\ smoothInFlight \in {0, 1}
    /\ pathInFlight + smoothInFlight <= 1
    /\ pathInFlight =
          InFlightInTrace("path_send_goal", "path_goal_response", "path_result")
    /\ smoothInFlight =
          InFlightInTrace("smooth_send_goal", "smooth_goal_response", "smooth_result")
    /\ \A i \in Idx("smooth_send_goal") : i > 2 /\ trace[i - 2].ev = "path_result"

\* C10 witness: the SmoothPath operation is in flight, the path operation
\* having finished.
C10_Witness ==
    /\ smoothInFlight = 1
    /\ pathInFlight = 0
    /\ Count("path_result") = 1
    /\ smoothResultFuture = "pending"

\* C11: the waypoint list of every submitted ComputePathThroughPoses goal
\* is the two-element sequence (0.0, 2.0), (-0.8, 0.0), in this order, each
\* in frame 'map', with nothing else in it.
C11_WaypointOrder ==
    \A i \in Idx("path_send_goal") :
        LET goals == trace[i].arg.goals
        IN  /\ Len(goals) = 2
            /\ goals[1].position = [x |-> 0, y |-> 200]
            /\ goals[2].position = [x |-> -80, y |-> 0]
            /\ \A k \in 1..Len(goals) : goals[k].frame_id = "map"

\* C11 witness: the path goal has been submitted.
C11_Witness ==
    /\ Count("path_send_goal") = 1
    /\ pathSendFuture = "pending"

\* C12: the covariance of every SetInitialState request has 36 entries of
\* which exactly two are non-zero, the x and y variances (row-major indices
\* 0 and 7, here 1 and 8), each 0.25; the yaw variance (index 35, here 36)
\* is zero.
C12_Covariance ==
    \A i \in Idx("call_async") :
        LET cov == trace[i].arg.covariance
        IN  /\ DOMAIN cov = 1..36
            /\ { k \in DOMAIN cov : cov[k] # 0 } = {1, 8}
            /\ cov[1] = 25
            /\ cov[8] = 25
            /\ cov[36] = 0

\* C12 witness: the SetInitialState request has been dispatched.
C12_Witness ==
    /\ Count("call_async") = 1
    /\ pc = "publish_people"

-----------------------------------------------------------------------------
(* The state machine of the design, read off the program state *)

\* the executor is spinning with no callback of the chain left to come
SequenceDead ==
    /\ pc = "spin"
    /\ pathSendFuture # "pending"
    /\ pathResultFuture # "pending"
    /\ smoothSendFuture # "pending"
    /\ smoothResultFuture # "pending"

State ==
    IF pc = "done" THEN "Terminated"
    ELSE IF pc # "spin" THEN "Initializing"
    ELSE IF pathSendFuture = "pending" THEN "AwaitingPathAcceptance"
    ELSE IF pathResultFuture = "pending" THEN "AwaitingPathResult"
    ELSE IF smoothSendFuture = "pending" THEN "AwaitingSmoothAcceptance"
    ELSE IF smoothResultFuture = "pending" THEN "AwaitingSmoothResult"
    ELSE "Failed"

\* one of the four failures has been recorded
FailureCause ==
    \/ Probed("path_wait_for_server", FALSE)
    \/ Probed("smooth_wait_for_server", FALSE)
    \/ Answered("path_goal_response", FALSE)
    \/ Answered("smooth_goal_response", FALSE)

\* the calls by which the node acts on the remote subsystem
OrchestrationCalls ==
    {"path_wait_for_server", "path_send_goal", "path_get_result",
     "smooth_wait_for_server", "smooth_send_goal", "smooth_get_result",
     "publish_plan", "destroy_node", "rclpy_shutdown"}

\* the events this step appends to the trace
NewEvents == SubSeq(trace', Len(trace) + 1, Len(trace'))

\* this step starts with the delivery of the notification `name`
Delivered(name) ==
    /\ Len(trace') > Len(trace)
    /\ trace'[Len(trace) + 1].ev = name

\* C13, state part: the sequence is failed exactly when one of the four
\* failures has happened; it has then logged its one error, the process is
\* still spinning and shutdown has not been invoked.
C13_FailedState ==
    /\ FailureCause <=> State = "Failed"
    /\ State = "Failed" => SequenceDead /\ Len(log) = 1 /\ NoShutdown

\* C13, step part: no step leaves Failed, and a step taken in Failed makes
\* no orchestration call.
C13_FailedStep ==
    State = "Failed" =>
        /\ State' = "Failed"
        /\ \A k \in 1..Len(NewEvents) : NewEvents[k].ev \notin OrchestrationCalls
        /\ log' = log

\* C13: Failed is absorbing and does not tear the process down: after a
\* failed availability wait or a rejected goal no goal is submitted, no
\* result requested, nothing published, no transition leaves Failed and
\* shutdown is never invoked.
C13_FailedIsAbsorbing == []C13_FailedState /\ [][C13_FailedStep]_vars

\* C13 witness: the smoothing goal was rejected and the process, still
\* spinning, has since received the SetInitialState response.
C13_Witness ==
    /\ State = "Failed"
    /\ Answered("smooth_goal_response", FALSE)
    /\ trace[Len(trace)].ev = "initial_pose_response"
    /\ trace[Len(trace) - 1].ev = "smooth_goal_response"

\* the first event of this step is `name` and carries the boolean `flag`
DeliveredAnswer(name, flag) ==
    /\ Delivered(name)
    /\ trace'[Len(trace) + 1].arg = flag

\* the first event of this step is the result `name`, reporting `status`
DeliveredResult(name, status) ==
    /\ Delivered(name)
    /\ trace'[Len(trace) + 1].arg.status = status

\* this step makes the availability wait `name`, which returns `ok`
ProbedNow(name, ok) ==
    \E k \in 1..Len(NewEvents) :
        /\ NewEvents[k].ev = name
        /\ NewEvents[k].arg.ok = ok

\* C14, as stated: Failed is entered from the awaiting states on a
\* rejection and from the availability checks on timeout. In a result state
\* the one notification there is is the result, so a rejection there is a
\* result that reports ABORTED. (For AwaitingPathResult only the entry
\* through the smoothing wait is asked for, which is the weakest reading.)
C14_AsStated ==
    [][ /\ (State = "AwaitingPathAcceptance"
              /\ DeliveredAnswer("path_goal_response", FALSE)) => State' = "Failed"
        /\ (State = "AwaitingPathResult"
              /\ ProbedNow("smooth_wait_for_server", FALSE)) => State' = "Failed"
        /\ (State = "AwaitingSmoothAcceptance"
              /\ DeliveredAnswer("smooth_goal_response", FALSE)) => State' = "Failed"
        /\ (State = "AwaitingSmoothResult"
              /\ DeliveredResult("smooth_result", "ABORTED")) => State' = "Failed"
        /\ ProbedNow("path_wait_for_server", FALSE) => State' = "Failed" ]_vars

\* C14, amended: Failed is entered from the two acceptance states on a
\* rejection, from Initializing when the path server wait times out and
\* from AwaitingPathResult when the smoothing server wait, made inside the
\* path result callback, times out; these are the only ways into Failed.
\* A result is never taken as a rejection, whatever its status, and
\* AwaitingSmoothResult never moves to Failed.
C14_Amended ==
    [][ /\ (State = "AwaitingPathAcceptance"
              /\ DeliveredAnswer("path_goal_response", FALSE)) => State' = "Failed"
        /\ (State = "AwaitingSmoothAcceptance"
              /\ DeliveredAnswer("smooth_goal_response", FALSE)) => State' = "Failed"
        /\ ProbedNow("path_wait_for_server", FALSE) =>
              State = "Initializing" /\ State' = "Failed"
        /\ ProbedNow("smooth_wait_for_server", FALSE) =>
              State = "AwaitingPathResult" /\ State' = "Failed"
        /\ (State # "Failed" /\ State' = "Failed") =>
              \/ DeliveredAnswer("path_goal_response", FALSE)
              \/ DeliveredAnswer("smooth_goal_response", FALSE)
              \/ ProbedNow("path_wait_for_server", FALSE)
              \/ ProbedNow("smooth_wait_for_server", FALSE)
        /\ State = "AwaitingSmoothResult" =>
              State' \in {"AwaitingSmoothResult", "Terminated"} ]_vars

\* C14 witness: Failed has been entered from AwaitingPathResult, on the
\* smoothing server wait timing out after a path result.
C14_Witness ==
    /\ State = "Failed"
    /\ Probed("smooth_wait_for_server", FALSE)
    /\ Occurred("path_result")
    /\ ~Answered("path_goal_response", FALSE)

\* the externally visible actions of a complete run, in order; shutdown is
\* destroy_node followed by rclpy.shutdown
VisibleOrder ==
    << "call_async", "publish_people", "path_send_goal", "path_get_result",
       "smooth_send_goal", "smooth_get_result", "publish_plan",
       "destroy_node", "rclpy_shutdown" >>

IsVisible(e) == \E k \in DOMAIN VisibleOrder : VisibleOrder[k] = e.ev

\* the names of the visible actions recorded so far, in order
VisibleTrace ==
    LET visible == SelectSeq(trace, IsVisible)
    IN  [k \in 1..Len(visible) |-> visible[k].ev]

\* place of a state in the chain of the design; Publishing is passed inside
\* the smoothing result callback, between its publish and its shutdown
Rank(state) ==
    CASE state = "Initializing" -> 1
      [] state = "AwaitingPathAcceptance" -> 2
      [] state = "AwaitingPathResult" -> 3
      [] state = "AwaitingSmoothAcceptance" -> 4
      [] state = "AwaitingSmoothResult" -> 5
      [] state = "Terminated" -> 7
      [] state = "Failed" -> 0

\* C15, state part: the visible actions recorded so far are a prefix of the
\* fixed order.
C15_PrefixOfOrder ==
    /\ Len(VisibleTrace) <= Len(VisibleOrder)
    /\ VisibleTrace = SubSeq(VisibleOrder, 1, Len(VisibleTrace))

\* C15, step part: a step that changes the state moves it one place along
\* the chain or drops it to Failed; the step into Terminated goes through
\* Publishing, i.e. it publishes the final path before it shuts down.
C15_AdvanceStep ==
    State' # State =>
        /\ State \notin {"Failed", "Terminated"}
        /\ \/ State' = "Failed"
           \/ Rank(State') = Rank(State) + 1
           \/ /\ State = "AwaitingSmoothResult"
              /\ State' = "Terminated"
              /\ \E k \in 1..Len(NewEvents) : NewEvents[k].ev = "publish_plan"

\* C15: the visible actions of any run occur in the fixed order, none
\* skipped, reordered or repeated, and the state only advances along the
\* chain or drops to Failed.
C15_FixedOrder == []C15_PrefixOfOrder /\ [][C15_AdvanceStep]_vars

\* C15 witness: a run has made all the visible actions.
C15_Witness == VisibleTrace = VisibleOrder

\* every call the node can make on a client, a publisher or the context
NodeCalls ==
    {"call_async", "publish_people",
     "path_wait_for_server", "path_send_goal", "path_get_result",
     "smooth_wait_for_server", "smooth_send_goal", "smooth_get_result",
     "publish_plan", "destroy_node", "rclpy_shutdown"}

\* C16: the orchestrator is single-shot: every call is made at most once in
\* a run (so nothing is retried or resubmitted, after a failure or
\* otherwise), at most one error is logged, and once shutdown has been
\* initiated nothing more happens: rclpy.shutdown is the last event
\* recorded and no step is enabled.
C16_SingleShot ==
    /\ \A name \in NodeCalls : Count(name) <= 1
    /\ Len(log) <= 1
    /\ \A i \in Idx("rclpy_shutdown") : i = Len(trace)
    /\ pc = "done" => ~ENABLED Next

\* C16 witness: a run failed on a rejected path goal after it had made each
\* of its calls so far once, and went on spinning.
C16_Witness ==
    /\ Answered("path_goal_response", FALSE)
    /\ Count("path_send_goal") = 1
    /\ Count("path_wait_for_server") = 1
    /\ initialPoseFuture = "done"
    /\ trace[Len(trace)].ev = "initial_pose_response"
    /\ trace[Len(trace) - 1].ev = "path_goal_response"

\* C17, state part: shutdown has been initiated exactly when the final path
\* has been published, and the publish is directly followed by destroy_node
\* and rclpy.shutdown, which end the trace.
C17_ShutdownIffPublished ==
    /\ Occurred("publish_plan") <=> Occurred("destroy_node")
    /\ Occurred("publish_plan") <=> Occurred("rclpy_shutdown")
    /\ Occurred("publish_plan") <=> State = "Terminated"
    /\ \A i \in Idx("publish_plan") :
          /\ Len(trace) = i + 2
          /\ trace[i + 1].ev = "destroy_node"
          /\ trace[i + 2].ev = "rclpy_shutdown"

\* C17, step part: Terminated is entered from AwaitingSmoothResult only, by
\* the step that receives the smoothing result and publishes.
C17_IntoTerminated ==
    (State # "Terminated" /\ State' = "Terminated") =>
        /\ State = "AwaitingSmoothResult"
        /\ Delivered("smooth_result")
        /\ Len(NewEvents) = 4
        /\ NewEvents[2].ev = "publish_plan"

\* C17: shutdown is initiated if and only if the final path has been
\* published; the only transition into Terminated is the smoothing result
\* callback, which publishes and then shuts down with no event in between;
\* Terminated is never entered from Failed or another awaiting state.
C17_ShutdownOnlyAfterPublish ==
    []C17_ShutdownIffPublished /\ [][C17_IntoTerminated]_vars

\* C17 witness: the final path was published and the process shut down.
C17_Witness ==
    /\ State = "Terminated"
    /\ Count("publish_plan") = 1
    /\ trace[Len(trace)].ev = "rclpy_shutdown"
    /\ initialPoseFuture = "done"

AwaitingStates ==
    {"AwaitingPathAcceptance", "AwaitingPathResult",
     "AwaitingSmoothAcceptance", "AwaitingSmoothResult"}

\* the notification an awaiting state waits for
AwaitedNotification(state) ==
    CASE state = "AwaitingPathAcceptance" -> "path_goal_response"
      [] state = "AwaitingPathResult" -> "path_result"
      [] state = "AwaitingSmoothAcceptance" -> "smooth_goal_response"
      [] state = "AwaitingSmoothResult" -> "smooth_result"

\* C18, state part: in an awaiting state no error has been logged and
\* shutdown has not been initiated.
C18_AwaitingState ==
    State \in AwaitingStates => Len(log) = 0 /\ NoShutdown

\* C18, step part: a step taken in an awaiting state that does not deliver
\* the awaited notification leaves the state as it is, makes no
\* orchestration call and logs nothing; and an accepted goal goes on to
\* await its result.
C18_AwaitingStep ==
    /\ (State \in AwaitingStates /\ ~Delivered(AwaitedNotification(State))) =>
          /\ State' = State
          /\ \A k \in 1..Len(NewEvents) : NewEvents[k].ev \notin OrchestrationCalls
          /\ log' = log
    /\ DeliveredAnswer("path_goal_response", TRUE) => State' = "AwaitingPathResult"
    /\ DeliveredAnswer("smooth_goal_response", TRUE) => State' = "AwaitingSmoothResult"

\* C18: acceptance and result have no deadline: as long as the awaited
\* notification is not delivered the orchestrator stays in its awaiting
\* state; it does not time out, fail, take a later step or shut down.
C18_NoDeadline == []C18_AwaitingState /\ [][C18_AwaitingStep]_vars

\* C18 witness: the smoothing goal was accepted and the process awaits the
\* result with nothing else left to be delivered.
C18_Witness ==
    /\ State = "AwaitingSmoothResult"
    /\ initialPoseFuture = "done"
    /\ trace[Len(trace)].ev = "initial_pose_response"

\* the goals, notifications and final calls by which a run passes through
\* the states of the chain, in the order of the design
ChainOrder ==
    << "path_send_goal", "path_goal_response", "path_get_result",
       "path_result", "smooth_send_goal", "smooth_goal_response",
       "smooth_get_result", "smooth_result", "publish_plan",
       "destroy_node", "rclpy_shutdown" >>

InChain(e) == \E k \in DOMAIN ChainOrder : ChainOrder[k] = e.ev

\* the names of the chain events recorded so far, in order
ChainTrace ==
    LET chain == SelectSeq(trace, InChain)
    IN  [k \in 1..Len(chain) |-> chain[k].ev]

\* C19: when the /set_initial_pose service becomes ready and every
\* notification is delivered (LiveSpec), a run in which both servers are
\* found available and both goals are accepted eventually publishes the
\* final path and reaches Terminated, having made every visible action of
\* the chain in order.
C19_SuccessPathTerminates ==
    ([]~FailureCause) =>
        <>(/\ State = "Terminated"
           /\ VisibleTrace = VisibleOrder
           /\ ChainTrace = ChainOrder
           /\ Len(log) = 0)

\* C19 witness: a run without failure has reached Terminated after waiting
\* for the service more than once.
C19_Witness ==
    /\ State = "Terminated"
    /\ ~FailureCause
    /\ waits = MaxWaits
    /\ Count("publish_plan") = 1

\* what a step that starts with a path result does with it: smooth_path is
\* invoked with the contained path, so the availability wait follows the
\* result directly and, when the wait succeeds, the goal carrying that path
PathResultHandedOn ==
    /\ Len(NewEvents) >= 2
    /\ NewEvents[2].ev = "smooth_wait_for_server"
    /\ NewEvents[2].arg.ok =>
          /\ Len(NewEvents) = 3
          /\ NewEvents[3].ev = "smooth_send_goal"
          /\ NewEvents[3].arg = [path |-> NewEvents[1].arg.result.path]
          /\ State' = "AwaitingSmoothAcceptance"
          /\ log' = log

\* what a step that starts with a smoothing result does with it: the
\* contained path is published and shutdown is initiated
SmoothResultPublished ==
    /\ Len(NewEvents) = 4
    /\ NewEvents[2].ev = "publish_plan"
    /\ NewEvents[2].arg = NewEvents[1].arg.result.path
    /\ NewEvents[3].ev = "destroy_node"
    /\ NewEvents[4].ev = "rclpy_shutdown"
    /\ State' = "Terminated"
    /\ log' = log

C20_StepAsStated ==
    /\ Delivered("path_result") => PathResultHandedOn
    /\ Delivered("smooth_result") => SmoothResultPublished
    /\ (Delivered("path_result") \/ Delivered("smooth_result")) =>
          State' # "Failed"

\* C20, as stated: every result notification advances the sequence and a
\* step that delivers a result never ends in Failed.
C20_AsStated == [][C20_StepAsStated]_vars

C20_Step ==
    /\ Delivered("path_result") =>
          /\ PathResultHandedOn
          /\ ~NewEvents[2].arg.ok =>
                /\ Len(NewEvents) = 2
                /\ State' = "Failed"
                /\ Len(log') = Len(log) + 1
    /\ Delivered("smooth_result") => SmoothResultPublished
    /\ ((Delivered("path_result") \/ Delivered("smooth_result"))
           /\ State' = "Failed") =>
          ProbedNow("smooth_wait_for_server", FALSE)

\* C20, amended: every path result, whatever its status and content, is
\* handed to smooth_path with the contained path, and every smoothing result
\* has its path published and is followed by shutdown. Nothing a result
\* reports leads to Failed: the step that delivers a path result ends in
\* Failed exactly when the availability wait of smooth_path, made in the same
\* callback, times out, and the step that delivers a smoothing result never
\* does.
C20_Amended == [][C20_Step]_vars

\* C20 witness: both results reported ABORTED with an empty path, the first
\* was sent on as the SmoothPath goal, the second was published and the
\* process has shut down.
C20_Witness ==
    /\ State = "Terminated"
    /\ \E i \in Idx("path_result") :
          /\ trace[i].arg = [status |-> "ABORTED", result |-> [path |-> << >>]]
          /\ trace[i + 2].ev = "smooth_send_goal"
          /\ trace[i + 2].arg = [path |-> << >>]
    /\ \E j \in Idx("smooth_result") :
          /\ trace[j].arg = [status |-> "ABORTED", result |-> [path |-> << >>]]
          /\ trace[j + 1].ev = "publish_plan"
          /\ trace[j + 1].arg = << >>

====
